---- MODULE Spec2Model ----
(***************************************************************************)
(* Exact Gaussian-process regression (notebooks/gp-inference.ipynb):       *)
(* cdist, rbf_kernel, gp_inference, the two hyperparameter optimisation    *)
(* loops (cells 26 and 36), the final inference cells and the inverse      *)
(* mapping of the class posteriors (cell 37).                              *)
(*                                                                         *)
(* Numbers.  A float tensor entry is a fixed-point number: the integer n   *)
(* stands for the real n / Scale.  Products and quotients round to the     *)
(* nearest unit, so rounding error exists in the model as it does in       *)
(* float32, only coarser.  A matrix is a record [r, c, e] with e[i][j] the *)
(* entry of row i and column j; the shape is kept apart from the entries   *)
(* so that empty matrices (N = 0 or M = 0) keep their shape.               *)
(***************************************************************************)
EXTENDS Integers, Sequences, FiniteSets, TLC

\* Resolution of the fixed-point numbers: Scale units make 1.0.
Scale == 1000

\* The largest integer the model checker's arithmetic holds.
MaxInt == 2147483647 + 0

Abs(a) == IF a < 0 THEN -a ELSE a

Sgn(a) == IF a < 0 THEN -1 ELSE 1

Real(n) == n * Scale

\* n / d as a fixed-point number (n, d integers, d > 0), e.g. Frac(1, 100).
Frac(n, d) == (2 * n * Scale + d) \div (2 * d)

\* x * y for x, y >= 0, rounded to the nearest unit; the factors are split so
\* that no intermediate product leaves the integers.
MulAbs(x, y) ==
  (x \div Scale) * (y \div Scale) * Scale + (x \div Scale) * (y % Scale)
    + (x % Scale) * (y \div Scale) + ((x % Scale) * (y % Scale) + Scale \div 2) \div Scale

\* a * b
FMul(a, b) == Sgn(a) * Sgn(b) * MulAbs(Abs(a), Abs(b))

RECURSIVE FracDiv(_, _)
\* r * Scale / y for 0 <= r < y, rounded; a large divisor is cut to fit.
FracDiv(r, y) ==
  IF y <= MaxInt \div (2 * Scale)
    THEN (r * Scale + y \div 2) \div y
    ELSE FracDiv(r \div 10, y \div 10)

\* a / b for b # 0, rounded to the nearest unit.
FDiv(a, b) ==
  Sgn(a) * Sgn(b) * ((Abs(a) \div Abs(b)) * Scale + FracDiv(Abs(a) % Abs(b), Abs(b)))

RECURSIVE Newton(_, _)
Newton(n, r) ==
  IF (r + n \div r) \div 2 >= r THEN r ELSE Newton(n, (r + n \div r) \div 2)

\* floor(sqrt(n)) for an integer n >= 0 (Newton's iteration from above).
ISqrt(n) ==
  IF n = 0 THEN 0
  ELSE Newton(n, IF n > 4 * Scale * Scale THEN n \div Scale ELSE 2 * Scale + 1)

\* r = floor(sqrt(n)), rounded to the nearest integer to sqrt(n).
RoundRoot(n, r) == IF n - r * r > r THEN r + 1 ELSE r

\* nan: what sqrt gives for a negative number.  It is no number of the model.
NaN == -MaxInt

RECURSIVE FSqrt(_)
\* sqrt(a): nan for a < 0; for a >= 0, sqrt(a / Scale) * Scale = sqrt(a * Scale).
FSqrt(a) ==
  IF a < 0 THEN NaN
  ELSE IF a > MaxInt \div Scale
    THEN 10 * FSqrt(a \div 100)
    ELSE RoundRoot(a * Scale, ISqrt(a * Scale))

RECURSIVE Horner(_, _, _)
\* 1 + r / k * (1 + r / (k + 1) * ( ... t))
Horner(r, k, t) == IF k = 0 THEN t ELSE Horner(r, k - 1, Scale + FMul(r, t) \div k)

\* exp(r) for 0 <= r <= 1: the Taylor series to the 7th power, Horner's form.
ExpSmall(r) == Horner(r, 7, Scale)

\* e
Euler == ExpSmall(Scale)

RECURSIVE ExpPos(_)
\* exp(y) for y >= 0.
ExpPos(y) == IF y <= Scale THEN ExpSmall(y) ELSE FMul(Euler, ExpPos(y - Scale))

\* 2 * atanh(z) to the 5th power, from z, z^2 and z^3.
AtanhSeries(z, z2, z3) == 2 * z + (4 * z3 + 3) \div 6 + (4 * FMul(z3, z2) + 5) \div 10

AtanhTwice(z) == AtanhSeries(z, FMul(z, z), FMul(FMul(z, z), z))

\* ln(x) for Scale <= x <= 2 * Scale: 2 * atanh((x - 1) / (x + 1)).
LnCore(x) == AtanhTwice(FDiv(x - Scale, x + Scale))

Ln2 == LnCore(2 * Scale)

RECURSIVE FLn(_)
\* torch.log / np.log for x > 0.
FLn(x) ==
  IF x >= 2 * Scale THEN Ln2 + FLn((x + 1) \div 2)
  ELSE IF x < Scale THEN FLn(2 * x) - Ln2
  ELSE LnCore(x)

\* 1 / e
EulerInv == FDiv(Scale, Euler)

RECURSIVE ExpNegRec(_)
ExpNegRec(y) ==
  IF y <= Scale THEN FDiv(Scale, ExpSmall(y))
  ELSE FMul(EulerInv, ExpNegRec(y - Scale))

\* ln(2 * Scale): from here on exp(-y) is below half a unit.
ExpCut == FLn(2 * Scale * Scale)

\* exp(-y) for y >= 0; below half a unit the result is 0 (underflow).
ExpNeg(y) == IF y >= ExpCut THEN 0 ELSE ExpNegRec(y)

\* torch.exp / Tensor.exp
FExp(x) == IF x < 0 THEN ExpNeg(-x) ELSE ExpPos(x)

\* np.pi
Pi == Frac(355, 113)

\* np.log(2 * np.pi)
LogTwoPi == FLn(2 * Pi)

-----------------------------------------------------------------------------
(* Tensors *)

\* <<F(1), ..., F(n)>>, each entry worked out once.
Tabulate(n, F(_)) ==
  LET t[k \in 0..n] == IF k = 0 THEN <<>> ELSE Append(t[k - 1], F(k))
  IN  t[n]

Matrix(n, m, Entry(_, _)) ==
  LET Row(i) == LET At(j) == Entry(i, j) IN Tabulate(m, At)
  IN  [r |-> n, c |-> m, e |-> Tabulate(n, Row)]

RECURSIVE SumTo(_, _)
\* f[1] + ... + f[n]
SumTo(f, n) == IF n = 0 THEN 0 ELSE SumTo(f, n - 1) + f[n]

\* x[..., None]: a vector of N scalars as an N x 1 matrix.
Unsqueeze(x) == LET E(i, j) == x[i] IN Matrix(Len(x), 1, E)

\* A.t()
Transpose(A) == LET E(i, j) == A.e[j][i] IN Matrix(A.c, A.r, E)

\* torch.matmul(A, B) for A.c = B.r
MatMul(A, B) ==
  LET E(i, j) == SumTo([k \in 1..A.c |-> FMul(A.e[i][k], B.e[k][j])], A.c)
  IN  Matrix(A.r, B.c, E)

\* A - B for equal shapes
MatSub(A, B) == LET E(i, j) == A.e[i][j] - B.e[i][j] IN Matrix(A.r, A.c, E)

\* torch.diag(A) of a square matrix, as a vector
Diag(A) == LET At(i) == A.e[i][i] IN Tabulate(A.r, At)

-----------------------------------------------------------------------------
(* cdist and rbf_kernel *)

\* The floor of clamp_min_(1e-30).  1e-30 lies below half a unit (as does the
\* 1e-6 / Scale written here, the smallest the integers can spell), so it is
\* the fixed-point number 0 and the entries below it are the negative ones.
ClampFloor == Frac(1, 1000000 * Scale)

\* A slip: no clamp_min_ before the square root.
Unclamped(a, floor) == a

\* res.clamp_min_(floor), entry by entry
ClampMin(a, floor) == IF a < floor THEN floor ELSE a

\* x.pow(2).sum(dim=-1, keepdim=True): the squared norm of each row.
RowNorm(x) ==
  LET At(i) == SumTo([k \in 1..x.c |-> FMul(x.e[i][k], x.e[i][k])], x.c)
  IN  Tabulate(x.r, At)

\* Entry <<i, j>> of torch.addmm(x2_norm.t(), x1, x2.t(), alpha=-2).add_(x1_norm)
SquaredDist(x1, x2, x1_norm, x2_norm, i, j) ==
  (x2_norm[j] + (-2) * SumTo([k \in 1..x1.c |-> FMul(x1.e[i][k], x2.e[j][k])], x1.c))
    + x1_norm[i]

cdist(x1, x2) ==
  LET x1_norm == RowNorm(x1)
      x2_norm == RowNorm(x2)
      E(i, j) ==
        FSqrt(ClampMin(SquaredDist(x1, x2, x1_norm, x2_norm, i, j), ClampFloor))
  IN  Matrix(x1.r, x2.r, E)

\* One entry of variance * exp(-d ** 2 / (2 * lengthscale ** 2)).  With a zero
\* denominator the clamped squared distance is positive, the quotient is +inf
\* and exp(-inf) = 0.  A nan distance gives a nan entry.
RbfEntry(d, den, variance) ==
  IF d = NaN THEN NaN
  ELSE IF den = 0 THEN FMul(variance, 0)
  ELSE FMul(variance, FExp(-FDiv(FMul(d, d), den)))

rbf_kernel(x1, x2, lengthscale, variance) ==
  LET D == cdist(Unsqueeze(x1), Unsqueeze(x2))
      E(i, j) == RbfEntry(D.e[i][j], 2 * FMul(lengthscale, lengthscale), variance)
  IN  Matrix(Len(x1), Len(x2), E)

-----------------------------------------------------------------------------
(* torch.cholesky and torch.trtrs *)

Zeros(n, m) == LET E(i, j) == 0 IN Matrix(n, m, E)

\* The pivot of column j of the lower factor, from the columns before it.
CholPivot(A, L, j) ==
  A.e[j][j] - SumTo([k \in 1..(j - 1) |-> FMul(L.e[j][k], L.e[j][k])], j - 1)

\* L with its column j filled in: d on the diagonal, the rest below it.
CholColumn(A, L, j, d) ==
  LET E(i, k) ==
        IF k # j \/ i < j THEN L.e[i][k]
        ELSE IF i = j THEN d
        ELSE FDiv(A.e[i][j]
                    - SumTo([m \in 1..(j - 1) |-> FMul(L.e[i][m], L.e[j][m])], j - 1),
                  d)
  IN  Matrix(A.r, A.c, E)

RECURSIVE CholFrom(_, _, _)
RECURSIVE CholStep(_, _, _, _)
\* LAPACK potrf on the lower triangle: a pivot s that is not positive ends the
\* factorisation with an error (info = j).
CholStep(A, L, j, s) ==
  IF s <= 0 THEN [ok |-> FALSE, L |-> L]
  ELSE CholFrom(A, CholColumn(A, L, j, FSqrt(s)), j + 1)

CholFrom(A, L, j) ==
  IF j > A.r THEN [ok |-> TRUE, L |-> L] ELSE CholStep(A, L, j, CholPivot(A, L, j))

\* torch.cholesky(A): [ok, L]; not ok when A is not square or a pivot is not
\* positive (RuntimeError).
cholesky(A) ==
  IF A.r # A.c THEN [ok |-> FALSE, L |-> Zeros(0, 0)]
  ELSE CholFrom(A, Zeros(A.r, A.c), 1)

\* Row i of the substitution on column c of b; the rows of x not yet solved
\* are 0.
SolveRow(A, b, c, i, x) ==
  [x EXCEPT ![i] =
     FDiv(b.e[i][c] - SumTo([k \in 1..A.r |-> FMul(A.e[i][k], x[k])], A.r),
          A.e[i][i])]

RECURSIVE SolveFrom(_, _, _, _, _, _)
\* Substitution with done rows solved: rows 1..n in order for a lower factor,
\* rows n..1 for an upper one.
SolveFrom(A, b, c, upper, done, x) ==
  IF done = A.r THEN x
  ELSE SolveFrom(A, b, c, upper, done + 1,
                 SolveRow(A, b, c, IF upper THEN A.r - done ELSE done + 1, x))

\* torch.trtrs(b, A, upper)[0]: [ok, x] with A x = b for a triangular A; not ok
\* (RuntimeError) when A is not square, the row counts differ or A has a zero
\* on its diagonal.
trtrs(b, A, upper) ==
  IF A.r # A.c \/ A.r # b.r \/ (\E i \in 1..A.r : A.e[i][i] = 0)
    THEN [ok |-> FALSE, x |-> Zeros(0, 0)]
  ELSE LET Zero(k) == 0
           Col(c) == SolveFrom(A, b, c, upper, 0, Tabulate(A.r, Zero))
           cols == Tabulate(b.c, Col)
           E(i, j) == cols[j][i]
       IN  [ok |-> TRUE, x |-> Matrix(b.r, b.c, E)]

-----------------------------------------------------------------------------
(* gp_inference *)

\* A noise argument: a number (dim = 0) or a 1-d tensor (dim = 1).
Scalar(a) == [dim |-> 0, v |-> <<a>>]

Vector(q) == [dim |-> 1, v |-> q]

\* What a call gives its caller: the returned triple, or the exception that
\* left it.  The code defines no exception class: every failure is the
\* RuntimeError of the torch operation that refused its input.
Return(m, v, ll) ==
  [kind |-> "return", exc |-> "", at |-> "", mean |-> m, cov |-> v, log_lik |-> ll]

Raise(exc, at) ==
  [kind |-> "raise", exc |-> exc, at |-> at, mean |-> <<>>, cov |-> Zeros(0, 0),
   log_lik |-> 0]

\* A slip: noise * torch.ones(N, N), which adds the noise to every entry.
NoiseTimesOnes(noise, N) ==
  LET One(i, j) == noise.v[1]
      PerColumn(i, j) == noise.v[j]
  IN  IF noise.dim = 0 \/ Len(noise.v) = 1 THEN [ok |-> TRUE, m |-> Matrix(N, N, One)]
      ELSE IF Len(noise.v) = N THEN [ok |-> TRUE, m |-> Matrix(N, N, PerColumn)]
      ELSE [ok |-> FALSE, m |-> Zeros(0, 0)]

\* noise * torch.eye(N) under torch's broadcasting: [ok, m].  A number, or a
\* vector of length 1, scales the identity; a vector of length N scales its
\* columns; against the 1 x 1 identity a longer vector gives a 1 x L row; any
\* other pair of shapes does not broadcast.
NoiseTimesEye(noise, N) ==
  LET Eye(i, j) == IF i = j THEN Scale ELSE 0
      One(i, j) == FMul(noise.v[1], Eye(i, j))
      PerColumn(i, j) == FMul(noise.v[j], Eye(i, j))
      Row(i, j) == FMul(noise.v[j], Scale)
  IN  IF noise.dim = 0 \/ Len(noise.v) = 1 THEN [ok |-> TRUE, m |-> Matrix(N, N, One)]
      ELSE IF Len(noise.v) = N THEN [ok |-> TRUE, m |-> Matrix(N, N, PerColumn)]
      ELSE IF N = 1 THEN [ok |-> TRUE, m |-> Matrix(1, Len(noise.v), Row)]
      ELSE [ok |-> FALSE, m |-> Zeros(0, 0)]

\* K + D, where D has K's shape or K is 1 x 1 and broadcasts over D.
AddBroadcast(K, D) ==
  LET Same(i, j) == K.e[i][j] + D.e[i][j]
      Spread(i, j) == K.e[1][1] + D.e[i][j]
  IN  IF K.r = D.r /\ K.c = D.c THEN Matrix(K.r, K.c, Same) ELSE Matrix(D.r, D.c, Spread)

\* K + D for D = [ok, m]; what does not broadcast stays not ok.
AddNoise(K, D) == IF D.ok THEN [ok |-> TRUE, m |-> AddBroadcast(K, D.m)] ELSE D

\* K_y = K + noise * torch.eye(obs_x.shape[0]): [ok, m]
NoisyKernel(obs_x, params) ==
  AddNoise(rbf_kernel(obs_x, obs_x, params[1], params[2]),
           NoiseTimesEye(params[3], Len(obs_x)))

\* A slip: the prior mean is not subtracted from the targets.
Uncentred(obs_t, prior_mean) == Unsqueeze(obs_t)

\* obs_t - prior_mean, as the N x 1 right-hand side trtrs makes of a vector
Centre(obs_t, prior_mean) ==
  LET At(i) == obs_t[i] - prior_mean IN Unsqueeze(Tabulate(Len(obs_t), At))

\* -.5 * (sum(log(abs(diag(K_chol)))) + sum(z ** 2)) - N / 2. * np.log(2 * np.pi)
LogLik(K_chol, z, N) ==
  FMul(-(Scale \div 2),
       SumTo([i \in 1..K_chol.r |-> FLn(Abs(Diag(K_chol)[i]))], K_chol.r)
         + SumTo([i \in 1..z.r |-> FMul(z.e[i][1], z.e[i][1])], z.r))
    - FMul((N * Scale) \div 2, LogTwoPi)

\* A slip: posterior_m[..., 0] returned without the prior mean added back.
MeanUnshifted(posterior_m, prior_mean) ==
  LET At(j) == posterior_m.e[j][1] IN Tabulate(posterior_m.r, At)

\* posterior_m[..., 0] + prior_mean
ShiftMean(posterior_m, prior_mean) ==
  LET At(j) == posterior_m.e[j][1] + prior_mean IN Tabulate(posterior_m.r, At)

\* The return statement, once both back-substitutions are through:
\* posterior_m = K_obs_pred.t() @ alpha,
\* posterior_v = K_pred - K_obs_pred.t() @ v, and log_lik.
GpReturn(alpha, v, z2, K_chol, K_obs_pred, K_pred, prior_mean, N) ==
  IF ~alpha.ok \/ ~v.ok THEN Raise("RuntimeError", "trtrs")
  ELSE Return(ShiftMean(MatMul(Transpose(K_obs_pred), alpha.x), prior_mean),
              MatSub(K_pred, MatMul(Transpose(K_obs_pred), v.x)),
              LogLik(K_chol, z2.x, N))

\* The back-substitutions trtrs(., K_chol.t()) on the forward solves z (of
\* obs_t, for alpha), w (of K_obs_pred, for v) and z2 (of obs_t again, for
\* log_lik).
GpSolve(z, w, z2, K_chol, K_obs_pred, K_pred, prior_mean, N) ==
  IF ~z.ok \/ ~w.ok \/ ~z2.ok THEN Raise("RuntimeError", "trtrs")
  ELSE GpReturn(trtrs(z.x, Transpose(K_chol), TRUE),
                trtrs(w.x, Transpose(K_chol), TRUE),
                z2, K_chol, K_obs_pred, K_pred, prior_mean, N)

\* From K_chol = torch.cholesky(K_y) on: the three forward solves
\* trtrs(., K_chol, upper=False).
GpFactored(K_chol, obs_t, K_obs_pred, K_pred, prior_mean, N) ==
  IF ~K_chol.ok THEN Raise("RuntimeError", "cholesky")
  ELSE GpSolve(trtrs(obs_t, K_chol.L, FALSE),
               trtrs(K_obs_pred, K_chol.L, FALSE),
               trtrs(obs_t, K_chol.L, FALSE),
               K_chol.L, K_obs_pred, K_pred, prior_mean, N)

\* From K_y on.
GpNoisy(K_y, obs_t, K_obs_pred, K_pred, prior_mean, N) ==
  IF ~K_y.ok THEN Raise("RuntimeError", "broadcast")
  ELSE GpFactored(cholesky(K_y.m), obs_t, K_obs_pred, K_pred, prior_mean, N)

\* The body of gp_inference below its line N = obs_x.shape[0].
GpBody(obs_x, obs_t, x_new, params, prior_mean, N) ==
  GpNoisy(NoisyKernel(obs_x, params),
          Centre(obs_t, prior_mean),
          rbf_kernel(obs_x, x_new, params[1], params[2]),
          rbf_kernel(x_new, x_new, params[1], params[2]),
          prior_mean, N)

\* A slip: N = x_new.shape[0], the count of the wrong tensor.
GpCountingTestPoints(obs_x, obs_t, x_new, params, prior_mean) ==
  GpBody(obs_x, obs_t, x_new, params, prior_mean, Len(x_new))

gp_inference(obs_x, obs_t, x_new, params, prior_mean) ==
  GpBody(obs_x, obs_t, x_new, params, prior_mean, Len(obs_x))

\* The right-hand sides of the trtrs(., K_chol, upper=False) calls a call ending
\* in r has made, in order: obs_t for alpha, K_obs_pred for v, obs_t for
\* log_lik.  A call fails in trtrs in its first solve (a right-hand side of the
\* wrong length), and not at all once K_chol exists otherwise.
ForwardSolves(r) ==
  IF r.kind = "return" THEN <<"obs_t", "K_obs_pred", "obs_t">>
  ELSE IF r.at = "trtrs" THEN <<"obs_t">>
  ELSE <<>>

\* A slip: obs_t -= prior_mean, which writes into the caller's tensor.
CentredInPlace(obs_t, prior_mean) ==
  LET At(k) == obs_t[k] - prior_mean IN Tabulate(Len(obs_t), At)

\* The caller's obs_t after obs_t = obs_t - prior_mean: the subtraction
\* allocates its result and only the local name is bound to it.
AfterCentring(obs_t, prior_mean) == obs_t

\* The caller's tensor x after cdist(x[..., None], .): pow(2) and addmm
\* allocate their results, and add_, clamp_min_ and sqrt_ write into res, the
\* tensor addmm returned; the view of x is only read.
AfterCdist(x) == x

-----------------------------------------------------------------------------
(* Bounds of the inputs *)

\* The most observations and the most test points of a direct call.
MaxN == 2

MaxM == 2

SeqsUpTo(S, n) == UNION {[1..k -> S] : k \in 0..n}

\* Observation inputs; a point may repeat.
XVals == {0, Real(1)}

\* The targets of n observations: 1, 0, 1, ...
Targets(n) == LET At(i) == IF i % 2 = 1 THEN Real(1) ELSE 0 IN Tabulate(n, At)

\* np.linspace(lo, hi, M)
Linspace(lo, hi, M) ==
  LET At(k) == IF M = 1 THEN lo ELSE lo + ((k - 1) * (hi - lo)) \div (M - 1)
  IN  Tabulate(M, At)

\* torch.from_numpy(np.linspace(-30, 85, 1)).float(): the one test point of
\* the calls that only want log_lik.
DummyInput == Linspace(Real(-30), Real(85), 1)

\* The test inputs of a direct call: M points from the first observation value
\* to beyond the last, or the dummy point.
TestInputs == {Linspace(0, Real(3), M) : M \in 0..MaxM} \cup {DummyInput}

\* Hyperparameter values handed over directly: negative, zero and positive.
HyperVals == {Real(-1), 0, Real(1)}

\* Per-point noise variances of the heteroskedastic calls.
NoiseVals == {Frac(1, 10), Frac(1, 2)}

NoiseArgs ==
  {Scalar(a) : a \in {Real(-1), 0, Frac(1, 10)}}
    \cup {Vector(q) : q \in SeqsUpTo(NoiseVals, MaxN)}

\* <<lengthscale, variance, noise>>; at most one of the kernel's two
\* hyperparameters is not positive.
ParamChoices ==
  {<<h[1], h[2], n>> :
     h \in {g \in HyperVals \X HyperVals : g[1] > 0 \/ g[2] > 0}, n \in NoiseArgs}

PriorMeans == {0, Frac(1, 2)}

-----------------------------------------------------------------------------
(* State *)

VARIABLES
  run,             \* "call", "regression" (cells 26, 30), "classification" (36)
  pc,              \* where the run stands
  obs_x,           \* observation inputs
  obs_t,           \* observation targets; N x 2 class indicators in cell 36
  params,          \* the params list last built
  prior_mean,      \* prior mean of the last call
  x_new,           \* test inputs of the last call
  K_y,             \* the matrix a direct call handed to torch.cholesky
  result,          \* what the last gp_inference call gave its caller
  result_0,        \* what the call before the last gave (cell 36: for class 0)
  solves,          \* right-hand sides of the forward solves of the last direct call
  dist,            \* what a direct call of cdist returned
  source,          \* cell 37: the standard normal draws
  samples,         \* cell 37: per test point, the samples before and after the mapping
  i,               \* iterations of the loop completed
  logp,            \* the torch.nn.Parameter values: log-hyperparameters
  grad,            \* their .grad
  buf,             \* the optimizer's momentum buffers; <<>> before the first step
  updates,         \* optimizer.step() calls made
  nlog_lik,        \* the loss of the iteration under way
  nlog_lik_steps   \* the trace of cell 26

vars ==
  <<run, pc, obs_x, obs_t, params, prior_mean, x_new, K_y, result, result_0,
    solves, dist, source, samples, i, logp, grad, buf, updates, nlog_lik,
    nlog_lik_steps>>

data == <<run, obs_x, obs_t>>

optimizer == <<i, logp, grad, buf, updates, nlog_lik, nlog_lik_steps>>

\* What the optimisation loops and the final inference leave alone.
side == <<solves, dist, source, samples>>

NoCall ==
  [kind |-> "none", exc |-> "", at |-> "", mean |-> <<>>, cov |-> Zeros(0, 0),
   log_lik |-> 0]

NoMatrix == [ok |-> FALSE, m |-> Zeros(0, 0)]

-----------------------------------------------------------------------------
(* A direct call of gp_inference (cells 13, 16, 18, 20) *)

InitCall ==
  /\ run = "call"
  /\ pc = "call"
  /\ obs_x \in SeqsUpTo(XVals, MaxN)
  /\ obs_t \in {Targets(n) : n \in 0..MaxN}
  /\ params \in ParamChoices
  /\ prior_mean \in PriorMeans
  /\ x_new \in TestInputs
  /\ K_y = NoMatrix
  /\ result = NoCall
  /\ result_0 = NoCall
  /\ solves = <<>>
  /\ dist = Zeros(0, 0)
  /\ source = <<>>
  /\ samples = <<>>
  /\ i = 0
  /\ logp = <<>>
  /\ grad = <<>>
  /\ buf = <<>>
  /\ updates = 0
  /\ nlog_lik = 0
  /\ nlog_lik_steps = <<>>

\* posterior_m, posterior_v, log_lik = gp_inference(obs_x, obs_t, test_x, params)
\* The caller's tensors are, after the call, what the call left in them.
Call ==
  /\ pc = "call"
  /\ run = "call"
  /\ K_y' = NoisyKernel(obs_x, params)
  /\ result' = gp_inference(obs_x, obs_t, x_new, params, prior_mean)
  /\ solves' = ForwardSolves(result')
  /\ obs_x' = AfterCdist(obs_x)
  /\ x_new' = AfterCdist(x_new)
  /\ obs_t' = AfterCentring(obs_t, prior_mean)
  /\ pc' = "done"
  /\ UNCHANGED <<run, params, prior_mean, result_0, dist, source, samples, optimizer>>

NextCall == Call

SpecCall == InitCall /\ [][NextCall]_vars

-----------------------------------------------------------------------------
(* A direct call of rbf_kernel, and of cdist on the same points *)

\* Points, some of them one unit apart.
DistVals == {0, Frac(7, 10), Frac(701, 1000)}

\* <<lengthscale, variance, noise>> with a lengthscale whose square is below
\* half a unit, and one whose square is not.
KernelParams ==
  {<<l, v, Scalar(0)>> : l \in {Frac(1, 100), Real(1)}, v \in {Real(1), Frac(3, 2)}}

InitKernel ==
  /\ run = "kernel"
  /\ pc = "call"
  /\ obs_x \in SeqsUpTo(DistVals, MaxN)
  /\ x_new \in SeqsUpTo(DistVals, MaxM)
  /\ obs_t = <<>>
  /\ params \in KernelParams
  /\ prior_mean = 0
  /\ K_y = NoMatrix
  /\ result = NoCall
  /\ result_0 = NoCall
  /\ solves = <<>>
  /\ dist = Zeros(0, 0)
  /\ source = <<>>
  /\ samples = <<>>
  /\ i = 0
  /\ logp = <<>>
  /\ grad = <<>>
  /\ buf = <<>>
  /\ updates = 0
  /\ nlog_lik = 0
  /\ nlog_lik_steps = <<>>

\* K = rbf_kernel(obs_x, x_new, lengthscale, variance), and the distances
\* cdist(obs_x[..., None], x_new[..., None]) it is made of.
Kernel ==
  /\ pc = "call"
  /\ run = "kernel"
  /\ dist' = cdist(Unsqueeze(obs_x), Unsqueeze(x_new))
  /\ K_y' = [ok |-> TRUE, m |-> rbf_kernel(obs_x, x_new, params[1], params[2])]
  /\ pc' = "done"
  /\ UNCHANGED <<data, x_new, params, prior_mean, result, result_0, solves, source,
                 samples, optimizer>>

NextKernel == Kernel

SpecKernel == InitKernel /\ [][NextKernel]_vars

-----------------------------------------------------------------------------
(* A direct call of gp_inference with little or no noise, on observations that
   may lie close together *)

\* <<lengthscale, variance, noise>> with the noise 0, and 1e-3.
ExactParams == {<<Real(1), v, Scalar(n)>> : v \in {Real(1), Frac(3, 2)}, n \in {0, 1}}

InitExact ==
  /\ run = "call"
  /\ pc = "call"
  /\ obs_x \in SeqsUpTo(DistVals, MaxN)
  /\ obs_t \in {Targets(n) : n \in 0..MaxN}
  /\ params \in ExactParams
  /\ prior_mean \in PriorMeans
  /\ x_new \in {DummyInput, obs_x}
  /\ K_y = NoMatrix
  /\ result = NoCall
  /\ result_0 = NoCall
  /\ solves = <<>>
  /\ dist = Zeros(0, 0)
  /\ source = <<>>
  /\ samples = <<>>
  /\ i = 0
  /\ logp = <<>>
  /\ grad = <<>>
  /\ buf = <<>>
  /\ updates = 0
  /\ nlog_lik = 0
  /\ nlog_lik_steps = <<>>

SpecExact == InitExact /\ [][NextCall]_vars

-----------------------------------------------------------------------------
\* The same call once more, on what the first call left of its arguments.
CallAgain ==
  /\ pc = "done"
  /\ run = "call"
  /\ result_0' = result
  /\ K_y' = NoisyKernel(obs_x, params)
  /\ result' = gp_inference(obs_x, obs_t, x_new, params, prior_mean)
  /\ solves' = ForwardSolves(result')
  /\ obs_x' = AfterCdist(obs_x)
  /\ x_new' = AfterCdist(x_new)
  /\ obs_t' = AfterCentring(obs_t, prior_mean)
  /\ pc' = "again"
  /\ UNCHANGED <<run, params, prior_mean, dist, source, samples, optimizer>>

NextRepeat == Call \/ CallAgain

SpecRepeat == InitCall /\ [][NextRepeat]_vars
-----------------------------------------------------------------------------
(* The optimisation loops (cells 26 and 36) and the final inference (cells 30
   and 36) *)

\* for i in range(200) in cell 26, for i in range(100) in cell 36
RegressionSteps == 200

ClassificationSteps == 100

Steps(r) == IF r = "regression" THEN RegressionSteps ELSE ClassificationSteps

\* A slip: range(S - 1), one iteration short.
LoopDoneOneShort(r, k) == k = Steps(r) - 1

\* range(S) is exhausted after S iterations; nothing else leaves the loop.
LoopDone(r, k) == k = Steps(r)

\* torch.tensor(2), torch.tensor(-2), torch.tensor(-2) in cell 26;
\* torch.tensor(1), torch.tensor(-1) in cell 36
InitLogParams(r) ==
  IF r = "regression" THEN <<Real(2), Real(-2), Real(-2)>> ELSE <<Real(1), Real(-1)>>

\* torch.optim.SGD(..., lr=0.01, momentum=0.95, nesterov=True)
Lr == Frac(1, 100)

Momentum == Frac(95, 100)

\* alpha = 0.05
Alpha == Frac(5, 100)

\* torch.log((obs_t + alpha) ** (-1) + 1)
TransfVar(col) ==
  LET At(k) == FLn(FDiv(Scale, col[k] + Alpha) + Scale) IN Tabulate(Len(col), At)

\* torch.log(obs_t + alpha) - (obs_t_transf_var) / 2
TransfMean(col) ==
  LET At(k) ==
        FLn(col[k] + Alpha) - FDiv(FLn(FDiv(Scale, col[k] + Alpha) + Scale), Real(2))
  IN  Tabulate(Len(col), At)

\* t[:, c] of the N x 2 tensor t (c = 0, 1)
Column(t, c) == LET At(k) == t[k][c + 1] IN Tabulate(Len(t), At)

RECURSIVE MaxOf(_, _)
MaxOf(q, n) ==
  IF n = 1 THEN q[1]
  ELSE IF q[n] > MaxOf(q, n - 1) THEN q[n] ELSE MaxOf(q, n - 1)

RECURSIVE MinOf(_, _)
MinOf(q, n) ==
  IF n = 1 THEN q[1]
  ELSE IF q[n] < MinOf(q, n - 1) THEN q[n] ELSE MinOf(q, n - 1)

\* (obs_t_transf_mean.max() + obs_t_transf_mean.min()) / 2
ClassPriorMean(t) ==
  FDiv(MaxOf(TransfMean(Column(t, 0)) \o TransfMean(Column(t, 1)), 2 * Len(t))
         + MinOf(TransfMean(Column(t, 0)) \o TransfMean(Column(t, 1)), 2 * Len(t)),
       Real(2))

\* A slip: the log-parameters themselves are handed over, without exp.
ParamsWithoutExp(r, lp) ==
  IF r = "regression" THEN <<lp[1], lp[2], Scalar(lp[3])>> ELSE <<lp[1], lp[2]>>

\* [logl.exp(), logsigmaf.exp(), logsigman.exp()] in cell 26,
\* [logl.exp(), logsigmaf.exp()] in cell 36
ParamsOf(r, lp) ==
  IF r = "regression" THEN <<FExp(lp[1]), FExp(lp[2]), Scalar(FExp(lp[3]))>>
  ELSE <<FExp(lp[1]), FExp(lp[2])>>

\* gp_inference(obs_x, obs_t_transf_mean[:, c], test_x,
\*              params + [obs_t_transf_var[:, c]], prior_mean)
ClassCall(x, t, test_x, p, c, pm) ==
  gp_inference(x, TransfMean(Column(t, c)), test_x,
               Append(p, Vector(TransfVar(Column(t, c)))), pm)

\* A slip: an exception of the call is swallowed and the loss taken as 0.
NegatedOrZero(r) ==
  IF r.kind = "return" THEN [ok |-> TRUE, v |-> -r.log_lik, by |-> r]
  ELSE [ok |-> TRUE, v |-> 0, by |-> r]

\* nlog_lik = -log_lik, unless the call raised: [ok, v, by]
Negated(r) ==
  IF r.kind = "return" THEN [ok |-> TRUE, v |-> -r.log_lik, by |-> r]
  ELSE [ok |-> FALSE, v |-> 0, by |-> r]

\* nlog_lik = - log_lik_0 - log_lik_1, unless one of the calls raised
NegatedSum(r0, r1) ==
  IF r0.kind # "return" THEN [ok |-> FALSE, v |-> 0, by |-> r0]
  ELSE IF r1.kind # "return" THEN [ok |-> FALSE, v |-> 0, by |-> r1]
  ELSE [ok |-> TRUE, v |-> -r0.log_lik - r1.log_lik, by |-> r1]

\* The loss of an iteration for the params list p.
Loss(r, x, t, p) ==
  IF r = "regression" THEN Negated(gp_inference(x, t, DummyInput, p, 0))
  ELSE NegatedSum(ClassCall(x, t, DummyInput, p, 0, 0),
                  ClassCall(x, t, DummyInput, p, 1, 0))

\* The step of the difference quotient that stands for autograd's derivative.
GradStep == Frac(1, 10)

\* The slope of the loss between lp - GradStep and lp + GradStep along one
\* log-parameter; where the loss exists on one side only, the slope on that
\* side of lp.
Slope(up, dn, at) ==
  IF up.ok /\ dn.ok THEN FDiv(up.v - dn.v, 2 * GradStep)
  ELSE IF up.ok THEN FDiv(up.v - at, GradStep)
  ELSE IF dn.ok THEN FDiv(at - dn.v, GradStep)
  ELSE 0

\* nlog_lik.backward(): d nlog_lik / d lp[k]
Derivative(r, x, t, lp, k, at) ==
  Slope(Loss(r, x, t, ParamsOf(r, [lp EXCEPT ![k] = @ + GradStep])),
        Loss(r, x, t, ParamsOf(r, [lp EXCEPT ![k] = @ - GradStep])),
        at)

\* A slip: no optimizer.zero_grad(); the .grad of the last iteration stays.
KeptGrad(g, n) == IF g = <<>> THEN [k \in 1..n |-> 0] ELSE g

\* optimizer.zero_grad(): the .grad of each of the n parameters is zeroed.
ZeroedGrad(g, n) == [k \in 1..n |-> 0]

\* SGD with momentum: buf = d_p the first time, momentum * buf + d_p after.
NextBuf(b, g) ==
  LET At(k) == IF b = <<>> THEN g[k] ELSE FMul(Momentum, b[k]) + g[k]
  IN  Tabulate(Len(g), At)

\* nesterov: d_p = d_p + momentum * buf; p.add_(-lr, d_p)
Stepped(lp, g, b) ==
  LET At(k) == lp[k] - FMul(Lr, g[k] + FMul(Momentum, b[k])) IN Tabulate(Len(lp), At)

\* A slip: nlog_lik_steps = [nlog_lik], which keeps the last loss only.
Overwritten(trace, v) == <<v>>

\* nlog_lik_steps.append(nlog_lik)
Appended(trace, v) == Append(trace, v)

\* The training sets: up to MaxTrain observations one unit apart, with
\* alternating targets (or classes) or with the same target (class) throughout.
MaxTrain == 3

TrainX(n) == LET At(k) == Real(k - 1) IN Tabulate(n, At)

Ones(n) == LET At(k) == Real(1) IN Tabulate(n, At)

\* np.stack([np.where(f >= 0, 1, 0), np.where(f >= 0, 0, 1)]).T
Indicators(q) == LET At(k) == <<q[k], Real(1) - q[k]>> IN Tabulate(Len(q), At)

TrainT(r, n) ==
  IF r = "regression" THEN {Targets(n), Ones(n)}
  ELSE {Indicators(Targets(n)), Indicators(Ones(n))}

\* test_x of the final inference: np.linspace(-30, 85, 200) in cell 30 and
\* np.linspace(-50, 115, 200) in cell 36, with MaxM points for the 200.
FinalInputs(r) ==
  IF r = "regression" THEN Linspace(Real(-30), Real(85), MaxM)
  ELSE Linspace(Real(-50), Real(115), MaxM)

InitOpt ==
  /\ run \in {"regression", "classification"}
  /\ pc = "zero_grad"
  /\ \E n \in 1..MaxTrain : obs_x = TrainX(n) /\ obs_t \in TrainT(run, n)
  /\ params = <<>>
  /\ prior_mean = 0
  /\ x_new = <<>>
  /\ K_y = NoMatrix
  /\ result = NoCall
  /\ result_0 = NoCall
  /\ solves = <<>>
  /\ dist = Zeros(0, 0)
  /\ source = <<>>
  /\ samples = <<>>
  /\ i = 0
  /\ logp = InitLogParams(run)
  /\ grad = <<>>
  /\ buf = <<>>
  /\ updates = 0
  /\ nlog_lik = 0
  /\ nlog_lik_steps = <<>>

\* optimizer.zero_grad(), at the head of an iteration the range still grants
ZeroGrad ==
  /\ pc = "zero_grad"
  /\ ~LoopDone(run, i)
  /\ grad' = ZeroedGrad(grad, Len(logp))
  /\ pc' = "forward"
  /\ UNCHANGED <<data, side, params, prior_mean, x_new, K_y, result, result_0, i, logp,
                 buf, updates, nlog_lik, nlog_lik_steps>>

\* params = [...exp()]; gp_inference(...); nlog_lik = -log_lik.  An exception
\* of gp_inference is caught nowhere: it ends the cell.
Forward ==
  /\ pc = "forward"
  /\ params' = ParamsOf(run, logp)
  /\ x_new' = DummyInput
  /\ prior_mean' = 0
  /\ \E loss \in {Loss(run, obs_x, obs_t, ParamsOf(run, logp))} :
       /\ result' = loss.by
       /\ nlog_lik' = IF loss.ok THEN loss.v ELSE nlog_lik
       /\ pc' = IF loss.ok THEN "backward" ELSE "crashed"
  /\ UNCHANGED <<data, side, K_y, result_0, i, logp, grad, buf, updates, nlog_lik_steps>>

\* nlog_lik.backward(): the derivatives are added to the .grad of each parameter
Backward ==
  /\ pc = "backward"
  /\ grad' = [k \in 1..Len(logp) |->
                grad[k] + Derivative(run, obs_x, obs_t, logp, k, nlog_lik)]
  /\ pc' = "step"
  /\ UNCHANGED <<data, side, params, prior_mean, x_new, K_y, result, result_0, i, logp,
                 buf, updates, nlog_lik, nlog_lik_steps>>

\* optimizer.step(); in cell 36 the iteration ends here
OptStep ==
  /\ pc = "step"
  /\ buf' = NextBuf(buf, grad)
  /\ logp' = Stepped(logp, grad, NextBuf(buf, grad))
  /\ updates' = updates + 1
  /\ pc' = IF run = "regression" THEN "append" ELSE "zero_grad"
  /\ i' = IF run = "regression" THEN i ELSE i + 1
  /\ UNCHANGED <<data, side, params, prior_mean, x_new, K_y, result, result_0, grad,
                 nlog_lik, nlog_lik_steps>>

\* nlog_lik_steps.append(nlog_lik): the end of an iteration of cell 26
AppendStep ==
  /\ pc = "append"
  /\ nlog_lik_steps' = Appended(nlog_lik_steps, nlog_lik)
  /\ i' = i + 1
  /\ pc' = "zero_grad"
  /\ UNCHANGED <<data, side, params, prior_mean, x_new, K_y, result, result_0, logp,
                 grad, buf, updates, nlog_lik>>

\* The range is exhausted: the loop is left (cell 26 prints and ends).
LoopEnd ==
  /\ pc = "zero_grad"
  /\ LoopDone(run, i)
  /\ pc' = "final"
  /\ UNCHANGED <<data, side, params, prior_mean, x_new, K_y, result, result_0, optimizer>>

\* Cell 30: gp_inference(obs_x, obs_t, test_x, params) with the final parameters
FinalRegression ==
  /\ pc = "final"
  /\ run = "regression"
  /\ params' = ParamsOf(run, logp)
  /\ x_new' = FinalInputs(run)
  /\ prior_mean' = 0
  /\ result' = gp_inference(obs_x, obs_t, FinalInputs(run), ParamsOf(run, logp), 0)
  /\ pc' = IF result'.kind = "return" THEN "done" ELSE "crashed"
  /\ UNCHANGED <<data, side, K_y, result_0, optimizer>>

\* Cell 36, "Run final inference": one call per class, with the prior mean
FinalClassification ==
  /\ pc = "final"
  /\ run = "classification"
  /\ params' = ParamsOf(run, logp)
  /\ x_new' = FinalInputs(run)
  /\ prior_mean' = ClassPriorMean(obs_t)
  /\ result_0' = ClassCall(obs_x, obs_t, FinalInputs(run), ParamsOf(run, logp), 0,
                           ClassPriorMean(obs_t))
  /\ result' = IF result_0'.kind # "return" THEN result_0'
               ELSE ClassCall(obs_x, obs_t, FinalInputs(run), ParamsOf(run, logp), 1,
                              ClassPriorMean(obs_t))
  /\ pc' = IF result'.kind = "return" THEN "done" ELSE "crashed"
  /\ UNCHANGED <<data, side, K_y, optimizer>>

\* np.random.randn(1000, 2): the values a standard normal draw takes here.
SourceVals == {-Real(1), Frac(1, 2), Real(2)}

\* posterior_std_c = torch.sqrt(torch.diag(posterior_v_c))
PosteriorStd(r) == LET At(j) == FSqrt(r.cov.e[j][j]) IN Tabulate(r.cov.r, At)

\* A draw from Normal(m, sd ** 2) made of the standard normal draw z: z * sd + m
ScaledByStd(z, sd, m) == IF sd = NaN THEN NaN ELSE FMul(z, sd) + m

\* One entry of source * np.sqrt(posterior_std[i, :]) + posterior_m[i, :]
Scaled(z, sd, m) == IF sd = NaN THEN NaN ELSE FMul(z, FSqrt(sd)) + m

\* e0 / (e0 + e1) and e1 / (e0 + e1); 0 / 0 is nan
Normalised(e0, e1) ==
  IF e0 + e1 = 0 THEN <<NaN, NaN>> ELSE <<FDiv(e0, e0 + e1), FDiv(e1, e0 + e1)>>

\* np.exp(samples) / np.exp(samples).sum(1).reshape(-1, 1), for one row
ExpNormalised(row) ==
  IF row[1] = NaN \/ row[2] = NaN THEN <<NaN, NaN>>
  ELSE Normalised(FExp(row[1]), FExp(row[2]))

\* The samples of test point j for the row z of source, before (line 854) and
\* after (line 855) the mapping.
SamplesAt(z, r0, r1, j) ==
  [normal |-> <<Scaled(z[1], PosteriorStd(r0)[j], r0.mean[j]),
                Scaled(z[2], PosteriorStd(r1)[j], r1.mean[j])>>,
   simplex |-> ExpNormalised(<<Scaled(z[1], PosteriorStd(r0)[j], r0.mean[j]),
                               Scaled(z[2], PosteriorStd(r1)[j], r1.mean[j])>>)]

\* Cell 37: the inverse mapping of the posterior, for one row of source (its
\* rows are mapped one by one, each as this one).
InverseMap ==
  /\ pc = "done"
  /\ run = "classification"
  /\ source' \in SourceVals \X SourceVals
  /\ samples' = [j \in 1..Len(result.mean) |-> SamplesAt(source', result_0, result, j)]
  /\ pc' = "mapped"
  /\ UNCHANGED <<data, solves, dist, params, prior_mean, x_new, K_y, result, result_0,
                 optimizer>>

NextOpt ==
  \/ InverseMap
  \/ ZeroGrad
  \/ Forward
  \/ Backward
  \/ OptStep
  \/ AppendStep
  \/ LoopEnd
  \/ FinalRegression
  \/ FinalClassification

SpecOpt == InitOpt /\ [][NextOpt]_vars

-----------------------------------------------------------------------------
(* Properties of a direct call (SpecCall) *)

\* A without its first row and its column c
Minor(A, c) ==
  LET E(a, b) == A.e[a + 1][IF b < c THEN b ELSE b + 1] IN Matrix(A.r - 1, A.c - 1, E)

RECURSIVE Det(_)
\* The determinant of a square matrix, by its first row.
Det(A) ==
  IF A.r = 0 THEN Scale
  ELSE IF A.r = 1 THEN A.e[1][1]
  ELSE SumTo([c \in 1..A.c |->
                (IF c % 2 = 1 THEN 1 ELSE -1) * FMul(A.e[1][c], Det(Minor(A, c)))],
             A.c)

Leading(A, k) == LET E(a, b) == A.e[a][b] IN Matrix(k, k, E)

\* Symmetric positive-definite: square, symmetric, every leading minor positive.
IsSPD(A) ==
  /\ A.r = A.c
  /\ \A a, b \in 1..A.r : A.e[a][b] = A.e[b][a]
  /\ \A k \in 1..A.r : Det(Leading(A, k)) > 0

Called == run = "call" /\ pc = "done"

NumObs == Len(obs_x)

\* The noise of observation k: the scalar, or the k-th entry of the vector.
NoiseAt(k) == IF params[3].dim = 0 THEN params[3].v[1] ELSE params[3].v[k]

\* C1: whenever gp_inference was called with a K_y that is not symmetric
\* positive-definite, the call raised a NumericalInstabilityError in the
\* Cholesky step; it returned no triple.
C1_NotSpdRaisesNumericalInstability ==
  (Called /\ K_y.ok /\ ~IsSPD(K_y.m)) =>
    /\ result.kind = "raise"
    /\ result.exc = "NumericalInstabilityError"
    /\ result.at = "cholesky"

NonPositive(p) == p[1] <= 0 \/ p[2] <= 0 \/ \E k \in 1..Len(p[3].v) : p[3].v[k] <= 0

\* C3: whenever gp_inference was called (on one observation or more) with a
\* lengthscale, variance or noise that is not positive, the call raised an
\* InvalidHyperparameterError and no kernel matrix was built for the Cholesky
\* step.
C3_NonPositiveRejectedEagerly ==
  (Called /\ NumObs > 0 /\ NonPositive(params)) =>
    /\ result.kind = "raise"
    /\ result.exc = "InvalidHyperparameterError"
    /\ K_y = NoMatrix

LengthMismatch ==
  \/ Len(obs_t) # NumObs
  \/ params[3].dim = 1 /\ Len(params[3].v) # NumObs

\* C4: whenever gp_inference was called (on one observation or more) with
\* obs_t, or a noise vector, of a length other than that of obs_x, the call
\* raised a DimensionMismatchError and returned no posterior.
C4_LengthMismatchRejected ==
  (Called /\ NumObs > 0 /\ LengthMismatch) =>
    /\ result.kind = "raise"
    /\ result.exc = "DimensionMismatchError"

\* Ky is K with the noise of observation a added at <<a, a>> and nothing added
\* elsewhere.
DiagonalShift(Ky, K) ==
  \A a, b \in 1..NumObs :
    Ky.e[a][b] = K.e[a][b] + (IF a = b THEN NoiseAt(a) ELSE 0)

\* C8: with the noise a scalar or a vector of length N, the call does not
\* refuse the noise, and the matrix handed to the Cholesky step is the kernel
\* matrix with noise_i added to its i-th diagonal entry and nothing added off
\* the diagonal.
C8_NoiseOnDiagonalOnly ==
  (Called /\ (params[3].dim = 0 \/ Len(params[3].v) = NumObs)) =>
    /\ K_y.ok
    /\ result.at # "broadcast"
    /\ K_y.m.r = NumObs
    /\ K_y.m.c = NumObs
    /\ DiagonalShift(K_y.m, rbf_kernel(obs_x, obs_x, params[1], params[2]))

\* A heteroskedastic call on two observations with different noises and a
\* kernel matrix with a non-zero off-diagonal entry has returned.
C8_Witness ==
  /\ Called
  /\ result.kind = "return"
  /\ NumObs = 2
  /\ params[3].dim = 1
  /\ Len(params[3].v) = 2
  /\ params[3].v[1] # params[3].v[2]
  /\ K_y.m.e[1][2] = rbf_kernel(obs_x, obs_x, params[1], params[2]).e[1][2]
  /\ K_y.m.e[1][2] > 0

SameLogLik(r1, r2) == r1.kind = r2.kind /\ r1.log_lik = r2.log_lik

Offsets == {-Frac(3, 2)}

\* q + c, entry by entry
Plus(q, c) == LET At(k) == q[k] + c IN Tabulate(Len(q), At)

\* r2 ended as r1 did and is r1 with c added to the mean at every test point.
ShiftedBy(r1, r2, c) ==
  /\ r2.kind = r1.kind
  /\ r2.at = r1.at
  /\ r2.mean = Plus(r1.mean, c)
  /\ r2.cov = r1.cov
  /\ r2.log_lik = r1.log_lik

\* C11: for every constant c, the call with c added to every target and to
\* the prior mean ends as the call made did and returns its posterior mean
\* plus c at every test point, its posterior covariance and its log_lik.
C11_PriorMeanOffsetCancels ==
  Called =>
    \A c \in Offsets :
      ShiftedBy(result,
                gp_inference(obs_x, Plus(obs_t, c), x_new, params, prior_mean + c), c)

\* A call on two observations and two test points with a non-zero prior mean
\* has returned a mean that is not the prior mean.
C11_Witness ==
  /\ Called
  /\ result.kind = "return"
  /\ NumObs = 2
  /\ Len(x_new) = 2
  /\ prior_mean # 0
  /\ result.mean[1] # prior_mean
  /\ result.mean[1] # result.mean[2]

MarginalLogLik(L, z, N) ==
  (-FMul(Scale \div 2, SumTo([k \in 1..L.r |-> FLn(Abs(L.e[k][k]))], L.r))
     - FMul(Scale \div 2, SumTo([k \in 1..z.r |-> FMul(z.e[k][1], z.e[k][1])], z.r)))
    - FMul((N * Scale) \div 2, LogTwoPi)

\* The same for the factor ch = [ok, L] and the right-hand side t of L z = t.
MarginalLogLikOf(ch, t, N) == MarginalLogLik(ch.L, trtrs(t, ch.L, FALSE).x, N)

\* How many forward solves of obs_t the last call made.
TargetSolves == Cardinality({k \in 1..Len(solves) : solves[k] = "obs_t"})

\* C16: the log_lik a call on one observation or more returns is -1/2 * sum_i log|L[i,i]| - 1/2 * ||z||^2
\* - (N/2) * log(2 * pi) for the lower Cholesky factor L of K_y and the
\* solution z of L z = obs_t - prior_mean (to the unit the two halves are
\* rounded to), and the call has solved for z once.
C16_LogLikReusesForwardSolve ==
  (Called /\ NumObs > 0 /\ result.kind = "return") =>
    /\ Abs(result.log_lik
             - MarginalLogLikOf(cholesky(K_y.m), Centre(obs_t, prior_mean), NumObs)) <= 1
    /\ TargetSolves = 1

\* No two entries of q are equal.
Distinct(q) == \A a, b \in 1..Len(q) : a # b => q[a] # q[b]

\* 1e-3
Tolerance == Frac(1, 1000)

\* The call ending in r returned, with the mean within Tolerance of t and the
\* variance within Tolerance of 0 at every point.
Interpolates(r, t) ==
  /\ r.kind = "return"
  /\ \A k \in 1..Len(t) :
       /\ Abs(r.mean[k] - t[k]) <= Tolerance
       /\ Abs(r.cov.e[k][k]) <= Tolerance

\* C17: with zero noise, distinct training inputs and positive lengthscale
\* and variance, gp_inference at x_new = obs_x returns, at every training
\* point, the target as posterior mean (within 1e-3) and a posterior variance
\* of 0 (within 1e-3).
C17_InterpolatesAtZeroNoise ==
  (/\ Called
   /\ NumObs > 0
   /\ Len(obs_t) = NumObs
   /\ Distinct(obs_x)
   /\ params[1] > 0
   /\ params[2] > 0
   /\ params[3] = Scalar(0)) =>
    Interpolates(gp_inference(obs_x, obs_t, obs_x, params, prior_mean), obs_t)

-----------------------------------------------------------------------------
(* Properties of cdist and rbf_kernel (SpecKernel) *)

KernelDone == run = "kernel" /\ pc = "done"

\* Entry <<a, b>> of the squared distances of obs_x and x_new before the clamp.
BeforeClamp(a, b) ==
  SquaredDist(Unsqueeze(obs_x), Unsqueeze(x_new), RowNorm(Unsqueeze(obs_x)),
              RowNorm(Unsqueeze(x_new)), a, b)

C18_DiagonalIsVariance ==
  (KernelDone /\ obs_x = x_new /\ params[1] > 0 /\ params[2] > 0) =>
    \A a \in 1..Len(obs_x) : K_y.m.e[a][a] = params[2]

-----------------------------------------------------------------------------
(* Properties of the optimisation runs (SpecOpt) *)

InLoop == pc \in {"zero_grad", "forward", "backward", "step", "append"}

\* C2: a gp_inference call that fails in the Cholesky step inside the loop
\* does not end the run by its exception.
C2_LoopSurvivesFailure ==
  (result.kind = "raise" /\ result.at = "cholesky") => pc # "crashed"

\* C5: a run leaves its loop only after exactly S iterations and S parameter
\* updates (200 in cell 26, 100 in cell 36), or by an exception; it never makes
\* more than S updates.
C5_ExactlySIterations ==
  /\ run = "regression" => updates <= RegressionSteps
  /\ run = "classification" => updates <= ClassificationSteps
  /\ ~InLoop =>
       \/ pc = "crashed" /\ result.kind = "raise"
       \/ run = "regression" /\ i = RegressionSteps /\ updates = RegressionSteps
       \/ run = "classification" /\ i = ClassificationSteps
            /\ updates = ClassificationSteps

\* The regression run has left its loop after 200 updates and finished.
C5_Witness ==
  /\ run = "regression"
  /\ pc = "done"
  /\ i = RegressionSteps
  /\ updates = RegressionSteps

\* C6: the trace of cell 26 has one entry per completed iteration (none at the
\* start); it changes only by gaining, at its end, the loss of the iteration
\* under way, which is the negative log_lik of that iteration's params.
C6_TraceAppendOnly ==
  /\ [](run = "regression" => Len(nlog_lik_steps) = i)
  /\ [](run = "regression" /\ pc \in {"backward", "step", "append"} =>
          nlog_lik = -gp_inference(obs_x, obs_t, DummyInput, params, 0).log_lik)
  /\ [][nlog_lik_steps' # nlog_lik_steps =>
          /\ pc = "append"
          /\ Len(nlog_lik_steps') = Len(nlog_lik_steps) + 1
          /\ \A k \in 1..Len(nlog_lik_steps) : nlog_lik_steps'[k] = nlog_lik_steps[k]
          /\ nlog_lik_steps'[Len(nlog_lik_steps')] = nlog_lik]_vars

\* The regression run has finished with 200 entries, not all alike.
C6_Witness ==
  /\ run = "regression"
  /\ pc = "done"
  /\ Len(nlog_lik_steps) = RegressionSteps
  /\ nlog_lik_steps[1] # nlog_lik_steps[RegressionSteps]

\* C7: once the regression run and its final inference are through, the
\* log_lik of the final inference is the negative of the last entry of the
\* trace.
C7_FinalLogLikIsLastRecorded ==
  (run = "regression" /\ pc = "done") =>
    result.log_lik = -nlog_lik_steps[Len(nlog_lik_steps)]

Optimising == run \in {"regression", "classification"}

\* The hyperparameters of the params list last built: lengthscale, variance
\* and, in cell 26, the noise.
Handed == IF run = "regression" THEN <<params[1], params[2], params[3].v[1]>> ELSE params

\* Where the params list last built is that of the current log-parameters:
\* from the call of gp_inference to optimizer.step(), and in the final
\* inference.
ParamsCurrent == pc \in {"backward", "step", "done", "crashed"}

\* Below this log-parameter exp may be less than half a unit.
ExpFloor == -Real(7)

C15_SamplesScaledByStd ==
  (run = "classification" /\ pc = "mapped") =>
    \A j \in 1..Len(samples) :
      /\ samples[j].normal[1]
           = ScaledByStd(source[1], FSqrt(result_0.cov.e[j][j]), result_0.mean[j])
      /\ samples[j].normal[2]
           = ScaledByStd(source[2], FSqrt(result.cov.e[j][j]), result.mean[j])
      /\ \A c \in 1..2 : samples[j].simplex[c] >= 0 /\ samples[j].simplex[c] <= Scale
      /\ Abs(samples[j].simplex[1] + samples[j].simplex[2] - Scale) <= 1

\* Where a step that starts at pc goes in run r: zero_grad, params and
\* gp_inference, backward, optimizer.step(), and in cell 26 the append.
Follows(r, from, to) ==
  \/ from = "zero_grad" /\ to \in {"forward", "final"}
  \/ from = "forward" /\ to \in {"backward", "crashed"}
  \/ from = "backward" /\ to = "step"
  \/ from = "step" /\ to = (IF r = "regression" THEN "append" ELSE "zero_grad")
  \/ from = "append" /\ to = "zero_grad"

C20_FailureLeavesStateOfLastIteration ==
  /\ [](Optimising /\ result.kind = "raise" => pc = "crashed")
  /\ [][pc # "crashed"]_vars
  /\ [][(pc = "zero_grad" \/ pc = "forward") =>
          UNCHANGED <<logp, buf, updates, i, nlog_lik_steps>>]_vars
  /\ [](pc = "crashed" =>
          /\ updates = i
          /\ run = "regression" => Len(nlog_lik_steps) = i)

\* The call of iteration 92 of cell 26 has raised in the Cholesky step, after
\* 91 updates.
C20_Witness ==
  /\ run = "regression"
  /\ pc = "crashed"
  /\ result.kind = "raise"
  /\ result.at = "cholesky"
  /\ i > 0
  /\ i < RegressionSteps
  /\ updates = i
  /\ Len(nlog_lik_steps) = i
  /\ buf # <<>>
  /\ logp # InitLogParams(run)

====
